---------------------------- MODULE Spec2Model ----------------------------
(***************************************************************************)
(* Model of the scheduling engine of src/app.py: the in-memory job map,    *)
(* the heap of (run_at, job_id) entries, the SQLite table, the scheduler   *)
(* loop, the executor threads it spawns and the HTTP handlers that create  *)
(* and cancel jobs.                                                        *)
(*                                                                         *)
(* Threads interleave between the statements that touch shared state.  In *)
(* Spec a call of persist_job is one step: it writes the row of the job as *)
(* the job is at that moment, or it raises and writes nothing.  SpecRace   *)
(* takes the call in its two steps, the read of the job and the write.     *)
(* SpecOrder and SpecBoot run several jobs where nothing raises.           *)
(***************************************************************************)
EXTENDS Integers, Sequences, FiniteSets, Bags, TLC

\* ---- bounds of the model
MaxJobs == 1          \* job ids are 1..MaxJobs (uuid4 values, ordered as strings)
MaxTime == 6          \* the clock runs over 0..MaxTime
MaxExec == 2          \* executor threads alive at once
MaxReqs == 1          \* HTTP requests in flight at once
MaxCrashes == 1       \* process restarts
MaxIOFailures == 1    \* persist_job calls that raise

\* ---- program constants
MaxRetries == 3       \* src/app.py:116
RetryBackoff == 2     \* src/app.py:118

Ids == 1..MaxJobs
Delays == {0, RetryBackoff}            \* request field 'delay'
\* request fields ('recurring', 'interval'); interval defaults to 0
Recurrences == {<<FALSE, 0>>, <<TRUE, RetryBackoff>>, <<TRUE, -RetryBackoff>>}
Payloads == {"", "p"}                  \* request field 'payload', a string

VARIABLES
    now,        \* time.time()
    jobs,       \* jobs: job_id -> job dict
    heap,       \* heap: the (run_at, job_id) entries, in pop order
    db,         \* table jobs of DB_FILE: id -> row
    execs,      \* bag of running execute_job threads
    reqs,       \* bag of HTTP requests being handled
    used,       \* uuid4 values handed out so far
    crashes,    \* restarts so far
    iofails,    \* persist_job failures so far
    order,      \* history: job ids in the order create_job pushed them, this run
    attempts,   \* history: id -> executions started since create_job made the job,
                \*   -1 once the job was cancelled, restored from the table, or had
                \*   its work return
    cancelled,  \* history: ids for which delete_job set 'cancelled'
    cancelledScheduled,  \* history: those of them that were 'scheduled' then, with
                \*   no thread executing them
    failed      \* history: ids whose work raised

hist == <<order, attempts, cancelled, cancelledScheduled, failed>>
vars == <<now, jobs, heap, db, execs, reqs, used, crashes, iofails, hist>>

\* ---- the heap: a list of tuples, compared as Python compares tuples
TupleLess(a, b) == a[1] < b[1] \/ (a[1] = b[1] /\ a[2] < b[2])

\* heapq.heappush(heap, e)
heappush(h, e) ==
    LET k == Cardinality({i \in 1..Len(h) : ~TupleLess(e, h[i])})
    IN  SubSeq(h, 1, k) \o <<e>> \o SubSeq(h, k + 1, Len(h))

\* heapq.heappop(heap): the entry returned, and the heap left
heappop_entry(h) == h[1]
heappop_rest(h) == Tail(h)

EntriesOf(h, id) == {i \in 1..Len(h) : h[i][2] = id}

\* ---- persist_job
\* the row persist_job writes for a job
Row(job) == [run_at |-> job.run_at, payload |-> job.payload,
             status |-> job.status, retries |-> job.retries,
             recurring |-> IF job.recurring THEN 1 ELSE 0,
             interval |-> job.interval]

Replace(table, id, row) == [i \in DOMAIN table \cup {id} |->
                               IF i = id THEN row ELSE table[i]]

\* ---- bags of threads
Put(bag, t) == bag (+) SetToBag({t})
Take(bag, t) == bag (-) SetToBag({t})
Move(bag, t, u) == Put(Take(bag, t), u)

ExecThread(id, pc) == [job |-> id, pc |-> pc]
ExecsOf(id) == {t \in BagToSet(execs) : t.job = id}
ExecCount(id) == BagCardinality([t \in ExecsOf(id) |-> execs[t]])

Init ==
    /\ now = 0
    /\ jobs = << >>
    /\ heap = << >>
    /\ db = << >>
    /\ execs = EmptyBag
    /\ reqs = EmptyBag
    /\ used = {}
    /\ crashes = 0
    /\ iofails = 0
    /\ order = << >>
    /\ attempts = << >>
    /\ cancelled = {}
    /\ cancelledScheduled = {}
    /\ failed = {}

\* the clock advances; time is observed in steps of the retry backoff, the
\* one fixed duration of the program
Tick ==
    /\ now < MaxTime
    /\ now' = now + RetryBackoff
    /\ UNCHANGED <<jobs, heap, db, execs, reqs, used, crashes, iofails, hist>>

\* ---- scheduler_loop: one iteration that finds a due entry and starts a thread
Dispatch ==
    /\ Len(heap) > 0
    /\ heappop_entry(heap)[1] <= now
    /\ BagCardinality(execs) < MaxExec
    /\ LET id == heappop_entry(heap)[2]
       IN  /\ heap' = heappop_rest(heap)
           /\ execs' = IF id \in DOMAIN jobs
                       THEN Put(execs, ExecThread(id, "work"))
                       ELSE execs
           /\ attempts' = [attempts EXCEPT ![id] = IF @ < 0 THEN @ ELSE @ + 1]
    /\ UNCHANGED <<now, jobs, db, reqs, used, crashes, iofails,
                   order, cancelled, cancelledScheduled, failed>>

\* ---- execute_job
\* the retry test of the except branch
ShouldRetryOffByOne(retries) == retries < MaxRetries

ShouldRetry(retries) == retries <= MaxRetries

\* the retry counter after a failure
NextRetriesStuck(retries) == retries

NextRetries(retries) == retries + 1

\* the work ends: it returns and the job is marked done, or it raises
ExecWork(t, ok) ==
    /\ t.pc = "work"
    /\ IF ok
       THEN /\ jobs' = [jobs EXCEPT ![t.job].status = "done"]
            /\ execs' = Move(execs, t, ExecThread(t.job, "p101"))
            /\ attempts' = [attempts EXCEPT ![t.job] = -1]
            /\ UNCHANGED failed
       ELSE /\ execs' = Move(execs, t, ExecThread(t.job, "except"))
            /\ failed' = failed \cup {t.job}
            /\ UNCHANGED <<jobs, attempts>>
    /\ UNCHANGED <<now, heap, db, reqs, used, crashes, iofails,
                   order, cancelled, cancelledScheduled>>

\* where execute_job goes after a persist_job call that returned (ok) or raised
AfterPersist(t, ok) ==
    CASE t.pc = "p101" /\ ok /\ jobs[t.job].recurring -> "resched"
      [] t.pc = "p101" /\ ok -> "end"
      [] t.pc = "p101" -> "except"
      [] t.pc = "p110" /\ ok -> "end"
      [] t.pc = "p110" -> "except"
      [] OTHER -> "end"

\* a persist_job call of execute_job: it writes the job's row, or raises
ExecPersist(t, ok) ==
    /\ t.pc \in {"p101", "p110", "p121", "p125"}
    /\ IF ok
       THEN /\ db' = Replace(db, t.job, Row(jobs[t.job]))
            /\ UNCHANGED iofails
       ELSE /\ iofails < MaxIOFailures
            /\ iofails' = iofails + 1
            /\ UNCHANGED db
    /\ execs' = IF AfterPersist(t, ok) = "end"
                THEN Take(execs, t)
                ELSE Move(execs, t, ExecThread(t.job, AfterPersist(t, ok)))
    /\ UNCHANGED <<now, jobs, heap, reqs, used, crashes, hist>>

\* a recurring job is given its next run_at and pushed
ExecReschedule(t) ==
    /\ t.pc = "resched"
    /\ LET at == now + jobs[t.job].interval
       IN  /\ jobs' = [jobs EXCEPT ![t.job].run_at = at,
                                   ![t.job].status = "scheduled"]
           /\ heap' = heappush(heap, <<at, t.job>>)
    /\ execs' = Move(execs, t, ExecThread(t.job, "p110"))
    /\ UNCHANGED <<now, db, reqs, used, crashes, iofails, hist>>

\* the except branch: retry after RetryBackoff, or dead-letter
ExecExcept(t) ==
    /\ t.pc = "except"
    /\ LET r == NextRetries(jobs[t.job].retries)
       IN  IF ShouldRetry(r)
           THEN /\ jobs' = [jobs EXCEPT ![t.job].retries = r,
                                        ![t.job].status = "scheduled",
                                        ![t.job].run_at = now + RetryBackoff]
                /\ heap' = heappush(heap, <<now + RetryBackoff, t.job>>)
                /\ execs' = Move(execs, t, ExecThread(t.job, "p121"))
           ELSE /\ jobs' = [jobs EXCEPT ![t.job].retries = r,
                                        ![t.job].status = "dead"]
                /\ execs' = Move(execs, t, ExecThread(t.job, "p125"))
                /\ UNCHANGED heap
    /\ UNCHANGED <<now, db, reqs, used, crashes, iofails, hist>>

\* ---- the HTTP handlers
Request(kind, id, pc, code, was) ==
    [kind |-> kind, job |-> id, pc |-> pc, code |-> code, was |-> was]

\* uuid.uuid4(): some value never handed out before
uuid4(ids) == ids \ used

\* create_job up to jobs[job_id] = job
CreateBegin(id, delay, payload, recurring, interval) ==
    /\ BagCardinality(reqs) < MaxReqs
    /\ id \notin used
    /\ used' = used \cup {id}
    /\ jobs' = Replace(jobs, id, [run_at |-> now + delay, payload |-> payload,
                                  status |-> "scheduled", retries |-> 0,
                                  recurring |-> recurring, interval |-> interval])
    /\ reqs' = Put(reqs, Request("create", id, "push", 0, "none"))
    /\ attempts' = Replace(attempts, id, 0)
    /\ UNCHANGED <<now, heap, db, execs, crashes, iofails,
                   order, cancelled, cancelledScheduled, failed>>

\* create_job: heapq.heappush(heap, (run_at, job_id))
CreatePush(q) ==
    /\ q.kind = "create" /\ q.pc = "push"
    /\ heap' = heappush(heap, <<jobs[q.job].run_at, q.job>>)
    /\ order' = Append(order, q.job)
    /\ reqs' = Move(reqs, q, [q EXCEPT !.pc = "persist"])
    /\ UNCHANGED <<now, jobs, db, execs, used, crashes, iofails,
                   attempts, cancelled, cancelledScheduled, failed>>

\* delete_job up to job['status'] = 'cancelled', or its 404
CancelBegin(id) ==
    /\ BagCardinality(reqs) < MaxReqs
    /\ IF id \in DOMAIN jobs
       THEN /\ jobs' = [jobs EXCEPT ![id].status = "cancelled"]
            /\ reqs' = Put(reqs, Request("cancel", id, "persist", 0, jobs[id].status))
            /\ cancelled' = cancelled \cup {id}
            /\ cancelledScheduled' = IF jobs[id].status = "scheduled" /\ ExecCount(id) = 0
                                     THEN cancelledScheduled \cup {id}
                                     ELSE cancelledScheduled
            /\ attempts' = [attempts EXCEPT ![id] = -1]
       ELSE /\ reqs' = Put(reqs, Request("cancel", id, "ret", 404, "none"))
            /\ UNCHANGED <<jobs, cancelled, cancelledScheduled, attempts>>
    /\ UNCHANGED <<now, heap, db, execs, used, crashes, iofails, order, failed>>

\* the status the handler answers with when persist_job returned
OkCode(kind) == IF kind = "create" THEN 201 ELSE 200

\* the status the caller gets: the handler's own, or the 500 of an exception
\* that leaves the handler
ReplyCodeSwallowed(kind, ok) == OkCode(kind)

ReplyCode(kind, ok) == IF ok THEN OkCode(kind) ELSE 500

\* the persist_job call of a handler: it writes the job's row and the handler
\* answers, or it raises and the request ends in a 500
ReqPersist(q, ok) ==
    /\ q.pc = "persist"
    /\ IF ok
       THEN /\ db' = Replace(db, q.job, Row(jobs[q.job]))
            /\ UNCHANGED iofails
       ELSE /\ iofails < MaxIOFailures
            /\ iofails' = iofails + 1
            /\ UNCHANGED db
    /\ reqs' = Move(reqs, q, [q EXCEPT !.pc = "ret", !.code = ReplyCode(q.kind, ok)])
    /\ UNCHANGED <<now, jobs, heap, execs, used, crashes, hist>>

\* the response leaves
Return(q) ==
    /\ q.pc = "ret"
    /\ reqs' = Take(reqs, q)
    /\ UNCHANGED <<now, jobs, heap, db, execs, used, crashes, iofails, hist>>

\* ---- the process dies and boots again: init_db, load_jobs_at_start
LoadedIdsAll(table) == DOMAIN table

LoadedIds(table) == {i \in DOMAIN table : table[i].status # "done"}

\* the job dict load_jobs_at_start builds from a row
LoadJob(row) == [run_at |-> row.run_at, payload |-> row.payload,
                 status |-> row.status, retries |-> row.retries,
                 recurring |-> row.recurring # 0, interval |-> row.interval]

RECURSIVE LoadHeap(_, _)
LoadHeap(table, ids) ==
    IF ids = {} THEN << >>
    ELSE LET i == CHOOSE x \in ids : TRUE
         IN  heappush(LoadHeap(table, ids \ {i}), <<table[i].run_at, i>>)

Restart ==
    /\ crashes < MaxCrashes
    /\ crashes' = crashes + 1
    /\ jobs' = [i \in LoadedIds(db) |-> LoadJob(db[i])]
    /\ heap' = LoadHeap(db, LoadedIds(db))
    /\ execs' = EmptyBag
    /\ reqs' = EmptyBag
    /\ order' = << >>
    /\ attempts' = [i \in LoadedIds(db) |-> -1]
    /\ UNCHANGED <<now, db, used, iofails, cancelled, cancelledScheduled, failed>>

Next ==
    \/ Tick
    \/ Dispatch
    \/ \E t \in BagToSet(execs) : \E ok \in BOOLEAN : ExecWork(t, ok)
    \/ \E t \in BagToSet(execs) : \E ok \in BOOLEAN : ExecPersist(t, ok)
    \/ \E t \in BagToSet(execs) : ExecReschedule(t)
    \/ \E t \in BagToSet(execs) : ExecExcept(t)
    \/ \E id \in uuid4(Ids) : \E d \in Delays : \E p \in Payloads :
           \E rc \in Recurrences : CreateBegin(id, d, p, rc[1], rc[2])
    \/ \E q \in BagToSet(reqs) : CreatePush(q)
    \/ \E id \in Ids : CancelBegin(id)
    \/ \E q \in BagToSet(reqs) : \E ok \in BOOLEAN : ReqPersist(q, ok)
    \/ \E q \in BagToSet(reqs) : Return(q)
    \/ Restart

Spec == Init /\ [][Next]_vars

\* ---- the order of the heap: several one-shot jobs are created, come due and
\* run; nothing raises, nothing is cancelled and the process stays up
OrderIds == 1..(MaxJobs + 2)

NextOrder ==
    \/ Tick
    \/ Dispatch
    \/ \E t \in BagToSet(execs) : ExecWork(t, TRUE)
    \/ \E t \in BagToSet(execs) : ExecPersist(t, TRUE)
    \/ \E id \in uuid4(OrderIds) : \E d \in Delays : CreateBegin(id, d, "", FALSE, 0)
    \/ \E q \in BagToSet(reqs) : CreatePush(q)
    \/ \E q \in BagToSet(reqs) : ReqPersist(q, TRUE)
    \/ \E q \in BagToSet(reqs) : Return(q)

SpecOrder == Init /\ [][NextOrder]_vars

\* ---- boot: several jobs, one-shot and recurring, are created and run, and the
\* process is restarted; nothing raises and nothing is cancelled
BootIds == 1..(MaxJobs + 1)

NextBoot ==
    \/ Tick
    \/ Dispatch
    \/ \E t \in BagToSet(execs) : ExecWork(t, TRUE)
    \/ \E t \in BagToSet(execs) : ExecPersist(t, TRUE)
    \/ \E t \in BagToSet(execs) : ExecReschedule(t)
    \/ \E id \in uuid4(BootIds) : \E p \in Payloads :
           \E rc \in {<<FALSE, 0>>, <<TRUE, RetryBackoff>>} :
               CreateBegin(id, 0, p, rc[1], rc[2])
    \/ \E q \in BagToSet(reqs) : CreatePush(q)
    \/ \E q \in BagToSet(reqs) : ReqPersist(q, TRUE)
    \/ \E q \in BagToSet(reqs) : Return(q)
    \/ Restart

SpecBoot == Init /\ [][NextBoot]_vars

\* ---- persist_job in two steps: the job's fields are read into the parameters
\* of the REPLACE statement, then the statement runs and is committed.  Other
\* threads run in between.  Nothing raises and the process stays up.
Reading(t) == "row" \notin DOMAIN t

\* persist_job of an executor thread reads the job
ExecPersistRead(t) ==
    /\ t.pc \in {"p101", "p110", "p121", "p125"} /\ Reading(t)
    /\ execs' = Move(execs, t, [job |-> t.job, pc |-> t.pc, row |-> Row(jobs[t.job])])
    /\ UNCHANGED <<now, jobs, heap, db, reqs, used, crashes, iofails, hist>>

\* persist_job of an executor thread writes what it read
ExecPersistWrite(t) ==
    /\ t.pc \in {"p101", "p110", "p121", "p125"} /\ ~Reading(t)
    /\ db' = Replace(db, t.job, t.row)
    /\ execs' = IF AfterPersist(t, TRUE) = "end"
                THEN Take(execs, t)
                ELSE Move(execs, t, ExecThread(t.job, AfterPersist(t, TRUE)))
    /\ UNCHANGED <<now, jobs, heap, reqs, used, crashes, iofails, hist>>

\* persist_job of a handler reads the job
ReqPersistRead(q) ==
    /\ q.pc = "persist" /\ Reading(q)
    /\ reqs' = Move(reqs, q, [kind |-> q.kind, job |-> q.job, pc |-> q.pc,
                              code |-> q.code, was |-> q.was,
                              row |-> Row(jobs[q.job])])
    /\ UNCHANGED <<now, jobs, heap, db, execs, used, crashes, iofails, hist>>

\* persist_job of a handler writes what it read, and the handler answers
ReqPersistWrite(q) ==
    /\ q.pc = "persist" /\ ~Reading(q)
    /\ db' = Replace(db, q.job, q.row)
    /\ reqs' = Move(reqs, q, Request(q.kind, q.job, "ret", ReplyCode(q.kind, TRUE), q.was))
    /\ UNCHANGED <<now, jobs, heap, execs, used, crashes, iofails, hist>>

NextRace ==
    \/ Tick
    \/ Dispatch
    \/ \E t \in BagToSet(execs) : \E ok \in BOOLEAN : ExecWork(t, ok)
    \/ \E t \in BagToSet(execs) : ExecPersistRead(t)
    \/ \E t \in BagToSet(execs) : ExecPersistWrite(t)
    \/ \E t \in BagToSet(execs) : ExecReschedule(t)
    \/ \E t \in BagToSet(execs) : ExecExcept(t)
    \/ \E id \in uuid4(Ids) : \E d \in Delays :
           \E rc \in {<<FALSE, 0>>, <<TRUE, RetryBackoff>>} :
               CreateBegin(id, d, "", rc[1], rc[2])
    \/ \E q \in BagToSet(reqs) : CreatePush(q)
    \/ \E id \in Ids : CancelBegin(id)
    \/ \E q \in BagToSet(reqs) : ReqPersistRead(q)
    \/ \E q \in BagToSet(reqs) : ReqPersistWrite(q)
    \/ \E q \in BagToSet(reqs) : Return(q)

SpecRace == Init /\ [][NextRace]_vars

\* ---- what the claims speak of
Entries(id) == Cardinality(EntriesOf(heap, id))

\* threads of job id that are at one of the places pcs
ExecAt(id, pcs) ==
    BagCardinality([t \in {u \in ExecsOf(id) : u.pc \in pcs} |-> execs[t]])

\* create_job has put the job in the map and not yet in the heap
CreatePending(id) ==
    \E q \in BagToSet(reqs) : q.kind = "create" /\ q.job = id /\ q.pc = "push"

\* the process has not been restarted
FirstRun == crashes = 0

\* this step hands job id to a new executor thread
Dispatched(id) == ExecCount(id)' > ExecCount(id)

\* this step is delete_job called for the existing job id
CancelCall(id) ==
    \E q \in BagToSet(reqs') :
        /\ q.kind = "cancel" /\ q.job = id /\ q.pc = "persist"
        /\ CopiesIn(q, reqs') > CopiesIn(q, reqs)

\* C1: a job is 'scheduled' iff the heap holds exactly one entry for it, and a
\* job of any other status has none (a job create_job is still inserting aside).
C1_QueueEntryIffScheduled ==
    \A id \in DOMAIN jobs :
        ~CreatePending(id) =>
            Entries(id) = IF jobs[id].status = "scheduled" THEN 1 ELSE 0

\* C2: within a run, a job cancelled while 'scheduled' has no heap entry after
\* the cancel and is never handed to the executor afterwards.
C2_CancelledNeverDispatched ==
    /\ [](FirstRun => \A id \in cancelledScheduled : Entries(id) = 0)
    /\ [][FirstRun' => \A id \in cancelledScheduled : ~Dispatched(id)]_vars

\* C3: delete_job changes the status to 'cancelled' iff the job is 'scheduled'
\* and not being executed; otherwise the status stays and the answer is not 200.
C3_CancelOnlyWhenScheduled ==
    /\ [][\A id \in DOMAIN jobs :
            CancelCall(id) =>
                IF jobs[id].status = "scheduled" /\ ExecCount(id) = 0
                THEN jobs'[id].status = "cancelled"
                ELSE jobs'[id].status = jobs[id].status]_vars
    /\ [](\A q \in BagToSet(reqs) :
            (q.kind = "cancel" /\ q.pc = "ret" /\ q.code = 200)
                => q.was = "scheduled")

\* C4: a job of this run that was never cancelled and whose work raised every
\* time has retries = the failed attempts so far, is back in the heap (once)
\* after each of the first MaxRetries failures, is 'dead' exactly when the
\* attempt MaxRetries + 1 has failed, and is not attempted again after that.
C4_DeadAfterFourAttempts ==
    \A id \in DOMAIN jobs :
        attempts[id] >= 0 =>
            LET running == ExecAt(id, {"work", "except"})
            IN  /\ attempts[id] <= MaxRetries + 1
                /\ running <= 1
                /\ jobs[id].retries = attempts[id] - running
                /\ (jobs[id].status = "dead") <=> (jobs[id].retries = MaxRetries + 1)
                /\ jobs[id].status = "dead" => Entries(id) = 0 /\ running = 0
                /\ (jobs[id].status # "dead" /\ ~CreatePending(id))
                       => /\ Entries(id) + running = 1
                          /\ jobs[id].status = "scheduled"

C4_Witness ==
    \E id \in DOMAIN jobs :
        /\ attempts[id] = MaxRetries + 1
        /\ jobs[id].status = "dead"
        /\ jobs[id].retries = MaxRetries + 1

\* C5 (its restart part): a job whose row is 'dead' has no heap entry after the
\* restart that rebuilds the map and the heap from the table.
C5_DeadNotRequeuedByRestart ==
    [][crashes' > crashes =>
          \A id \in DOMAIN db : db[id].status = "dead" => Entries(id)' = 0]_vars

\* C6 as claimed: a 'dead' job has retries <= MaxRetries.
C6_DeadRetriesWithinMax ==
    \A id \in DOMAIN jobs : jobs[id].status = "dead" => jobs[id].retries <= MaxRetries

\* C6 as amended: a 'dead' job, in the map or in the table, has retries >
\* MaxRetries, that is at least MaxRetries + 1.
C6_DeadRetriesExceedMax ==
    /\ \A id \in DOMAIN jobs : jobs[id].status = "dead" => jobs[id].retries > MaxRetries
    /\ \A id \in DOMAIN db : db[id].status = "dead" => db[id].retries > MaxRetries

C6_Witness ==
    \E id \in DOMAIN jobs :
        jobs[id].status = "dead" /\ jobs[id].retries = MaxRetries + 1

\* C7: a recurring job with interval >= 0 that was never cancelled and whose
\* work never raised is, whenever no run of it is in progress, 'scheduled' with
\* exactly one heap entry, keyed by its run_at; a run takes it from 'done' to
\* 'scheduled' with run_at = now + interval, and its run_at never decreases
\* (all within a run).
Recurs(id) ==
    /\ jobs[id].recurring /\ jobs[id].interval >= 0
    /\ id \notin cancelled /\ id \notin failed

C7_RecurringRescheduledOnce ==
    /\ [](\A id \in DOMAIN jobs :
            (FirstRun /\ Recurs(id) /\ ExecCount(id) = 0 /\ ~CreatePending(id))
                => /\ jobs[id].status = "scheduled"
                   /\ Entries(id) = 1
                   /\ \A i \in EntriesOf(heap, id) : heap[i][1] = jobs[id].run_at)
    /\ [][\A id \in DOMAIN jobs \cap DOMAIN jobs' :
            (FirstRun' /\ Recurs(id) /\ id \notin cancelled')
                => /\ jobs'[id].run_at >= jobs[id].run_at
                   /\ (jobs[id].status = "done" /\ jobs'[id].status = "scheduled")
                          => jobs'[id].run_at = now + jobs[id].interval]_vars

\* C8: the entry the scheduler pops next has the smallest run_at of the heap,
\* and among the entries with that run_at it is the one pushed first.
PushedBefore(a, b) ==
    \E i, j \in 1..Len(order) : order[i] = a /\ order[j] = b /\ i < j

C8_PopsInFifoOrder ==
    \A i \in 2..Len(heap) :
        \/ heap[1][1] < heap[i][1]
        \/ heap[1][1] = heap[i][1] /\ PushedBefore(heap[1][2], heap[i][2])

\* C9 (its last part): a non-recurring job that was never cancelled and whose
\* work never raised keeps the status 'done' once it has it, within a run.
C9_DoneIsStable ==
    [][\A id \in DOMAIN jobs :
          (/\ ~jobs[id].recurring /\ jobs[id].status = "done"
           /\ id \notin cancelled' /\ id \notin failed'
           /\ FirstRun')
              => (id \in DOMAIN jobs' /\ jobs'[id].status = "done")]_vars

\* C10 (a consequence of it): within a run, a delete_job call for a job that an
\* earlier call cancelled while 'scheduled' changes neither the job nor the heap.
C10_SecondCancelIsNoOp ==
    [][\A id \in cancelledScheduled \cap DOMAIN jobs :
          (FirstRun /\ CancelCall(id)) => (jobs'[id] = jobs[id] /\ heap' = heap)]_vars

\* C11: every job of the map has interval >= 0 (a Create with a negative
\* interval is rejected and stores nothing).
C11_StoredIntervalNonNegative ==
    \A id \in DOMAIN jobs : jobs[id].interval >= 0

\* C12: while the work of a job is being executed the job's status is 'running'.
C12_RunningWhileExecuted ==
    \A t \in BagToSet(execs) : t.pc = "work" => jobs[t.job].status = "running"

\* C13: within a run, a non-recurring job whose status is 'done' does not become
\* 'scheduled' and gets no new heap entry.
C13_DoneNeverRescheduled ==
    [][\A id \in DOMAIN jobs \cap DOMAIN jobs' :
          (FirstRun' /\ ~jobs[id].recurring /\ jobs[id].status = "done")
              => (jobs'[id].status # "scheduled" /\ Entries(id)' <= Entries(id))]_vars

\* C14: a job (of interval >= 0) handed to an executor thread at time now has
\* run_at <= now.
C14_DispatchedWhenDue ==
    [][\A id \in DOMAIN jobs :
          (Dispatched(id) /\ jobs[id].interval >= 0) => jobs[id].run_at <= now]_vars

\* this step is a persist_job call of handler request q that raises
PersistRaises(q) ==
    /\ q.pc = "persist" /\ iofails' > iofails
    /\ CopiesIn(q, reqs') < CopiesIn(q, reqs)

\* C15: when persist_job raises in create_job or delete_job the caller gets an
\* error, not the handler's success, and the job map and the heap stay as they
\* are: the job is still in the map.
C15_PersistFailurePropagates ==
    [][\A q \in BagToSet(reqs) :
          PersistRaises(q) =>
              /\ \E r \in BagToSet(reqs') :
                     /\ r.job = q.job /\ r.kind = q.kind /\ r.pc = "ret"
                     /\ r.code = 500 /\ r.code # OkCode(q.kind)
                     /\ CopiesIn(r, reqs') > CopiesIn(r, reqs)
              /\ jobs' = jobs /\ heap' = heap
              /\ q.job \in DOMAIN jobs']_vars

C15_Witness ==
    \E q \in BagToSet(reqs) :
        /\ q.kind = "cancel" /\ q.pc = "ret" /\ q.code = 500
        /\ jobs[q.job].status = "cancelled"
        /\ q.job \in DOMAIN db /\ db[q.job].status = "scheduled"

\* C16: the restart leaves, before the scheduler loop takes a step, a map that
\* holds exactly the rows of the table whose status is not 'done', each job
\* with the fields of its row, and a heap with exactly one entry (run_at, id)
\* for each of these jobs and no other.
C16_LoadRebuildsStoreAndQueue ==
    [][crashes' > crashes =>
          /\ execs' = EmptyBag
          /\ DOMAIN jobs' = {i \in DOMAIN db' : db'[i].status # "done"}
          /\ \A i \in DOMAIN jobs' :
                 /\ jobs'[i].run_at = db'[i].run_at
                 /\ jobs'[i].payload = db'[i].payload
                 /\ jobs'[i].status = db'[i].status
                 /\ jobs'[i].retries = db'[i].retries
                 /\ jobs'[i].recurring = (db'[i].recurring = 1)
                 /\ jobs'[i].interval = db'[i].interval
                 /\ Cardinality({k \in 1..Len(heap') :
                                    heap'[k] = <<db'[i].run_at, i>>}) = 1
          /\ Len(heap') = Cardinality(DOMAIN jobs')]_vars

\* after a restart: two jobs loaded, one of them recurring and with a payload
C16_Witness ==
    /\ crashes > 0 /\ execs = EmptyBag /\ Len(heap) = 2
    /\ \E i, j \in DOMAIN jobs \cap DOMAIN db :
           /\ i # j /\ jobs[i] = LoadJob(db[i]) /\ jobs[j] = LoadJob(db[j])
           /\ jobs[i].recurring /\ jobs[i].payload = "p" /\ ~jobs[j].recurring
           /\ Entries(i) = 1 /\ Entries(j) = 1

\* C17: while a run of a recurring job (never cancelled, interval >= 0, no
\* persist_job call has raised) is between its write of 'done' and its write
\* of the re-scheduled state, the job's row has status 'done', which is what a
\* crash at that point leaves in the table.
C17_DonePersistedUntilRescheduled ==
    \A t \in BagToSet(execs) :
        (/\ t.pc \in {"resched", "p110"}
         /\ t.job \notin cancelled /\ jobs[t.job].interval >= 0 /\ iofails = 0)
            => (t.job \in DOMAIN db /\ db[t.job].status = "done")

\* C18: the executor threads alive at once stay within a limit, a due entry
\* waiting when the limit is reached (the limit is any number smaller than the
\* bound MaxExec, beyond which the model does not follow the program).
C18_ExecutionsBelowLimit ==
    BagCardinality(execs) < MaxExec

\* C19: at most one execution of a job is in flight at a time.
C19_OneExecutionPerJob ==
    \A id \in DOMAIN jobs : ExecCount(id) <= 1

\* no handler and no executor thread is at work
Quiescent == reqs = EmptyBag /\ execs = EmptyBag

\* the row of job id says what the job dict says, in status, run_at and retries
RowMatches(id) ==
    /\ id \in DOMAIN db
    /\ db[id].status = jobs[id].status
    /\ db[id].run_at = jobs[id].run_at
    /\ db[id].retries = jobs[id].retries

\* C20: when no persist_job call has raised and nothing is in progress, the
\* row of every job of the map matches the job; stated for the jobs delete_job
\* was called for, whose writers are delete_job and the executor threads.
C20_QuiescentStoreMatchesTable ==
    (Quiescent /\ iofails = 0) =>
        \A id \in DOMAIN jobs \cap cancelled : RowMatches(id)

=============================================================================
